---------------------------- MODULE Spec2Model ----------------------------
(***************************************************************************)
(* A model of src/src/channel.rs: an mpsc channel whose receiving half is  *)
(* a pollable event source.  The control state (Inner) is the atomic       *)
(* counter `pending` and the write-once cell `set_readiness`; SenderCtl::inc*)
(* and ReceiverCtl::dec toggle the readiness bit of the Registration.      *)
(*                                                                         *)
(* Threads: every sender in Senders is a thread of its own; the Receiver   *)
(* (not Sync, not Clone) is used by one thread, which runs try_recv,       *)
(* register, reregister and deregister one after the other.  Each atomic   *)
(* operation on `pending` and each set_readiness call is one step.         *)
(***************************************************************************)
EXTENDS Integers, Sequences, FiniteSets

\* Total number of messages the senders may enqueue in one behaviour.
MaxSends == 3

\* Width in bits of the AtomicUsize counter of the model.
WordBits == 3

\* Capacity of the bounded (sync_channel) flavour.
Capacity == 1

Senders == {"s1", "s2"}

Modulus == 2 ^ WordBits

VARIABLES
    bounded,      \* StdSender::Bounded (TRUE) or StdSender::Unbounded (FALSE)
    queue,        \* the transport: messages enqueued and not yet dequeued
    rxAlive,      \* the Receiver has not been dropped
    pending,      \* Inner.pending
    regCell,      \* ReceiverCtl.registration (Lazy<Registration>) is occupied
    setCell,      \* Inner.set_readiness (AtomicLazy<SetReadiness>) is occupied
    pollEntry,    \* the Registration in the polling engine: none/active/removed
    readiness,    \* the readiness bit of the Registration: "none" or "readable"
    spc,          \* per sender: idle, inc (enqueued, before fetch_add),
                  \*   set (fetch_add returned 0), dropped
    rpc,          \* the receiver thread's position
    rfirst,       \* dec's local `first`
    rval,         \* the value try_recv dequeued and is about to return
    lastRet,      \* the last call that returned: [op, res, val]
    nextId,       \* the next fresh message value
    enqueued,     \* history: every value the transport accepted, in order
    received,     \* history: every value try_recv returned, in order
    setterCalls,  \* history: number of set_readiness calls made
    setterFailed, \* history: some set_readiness call failed
    regSeen,      \* history: the counter register loaded (-1: none yet)
    sentBy,       \* history: the senders whose values the transport accepted
    earlySend,    \* history: a send was accepted before register had returned
    sendAfterRecv,\* history: a send was accepted after a dequeue
    overlapped    \* history: a call began while another call was in progress

vars == <<bounded, queue, rxAlive, pending, regCell, setCell, pollEntry,
          readiness, spc, rpc, rfirst, rval, lastRet, nextId, enqueued,
          received, setterCalls, setterFailed, regSeen, sentBy, earlySend,
          sendAfterRecv, overlapped>>

transportVars == <<bounded, queue, rxAlive, nextId, enqueued>>
ctlVars == <<pending, setCell, readiness, setterCalls, setterFailed>>
regVars == <<regCell, pollEntry, regSeen>>
histVars == <<sentBy, earlySend, sendAfterRecv, overlapped>>

NoRet == [op |-> "none", res |-> "none", val |-> 0]

Ret(op, res, val) == [op |-> op, res |-> res, val |-> val]

\* Some call has started and not returned.
InProgress == rpc # "idle" \/ \E s \in Senders : spc[s] \in {"inc", "set"}

Quiescent == ~InProgress

----------------------------------------------------------------------------
(* ctl_pair / from_std_channel / from_std_sync_channel *)

Init ==
    /\ bounded \in BOOLEAN
    /\ queue = <<>>
    /\ rxAlive = TRUE
    /\ pending = 0
    /\ regCell = FALSE
    /\ setCell = FALSE
    /\ pollEntry = "none"
    /\ readiness = "none"
    /\ spc = [s \in Senders |-> "idle"]
    /\ rpc = "idle"
    /\ rfirst = 0
    /\ rval = 0
    /\ lastRet = NoRet
    /\ nextId = 1
    /\ enqueued = <<>>
    /\ received = <<>>
    /\ setterCalls = 0
    /\ setterFailed = FALSE
    /\ regSeen = -1
    /\ sentBy = {}
    /\ earlySend = FALSE
    /\ sendAfterRecv = FALSE
    /\ overlapped = FALSE

----------------------------------------------------------------------------
(* The transport (std::sync::mpsc) as StdSender and Receiver::rx use it *)

TransportFull(q) == bounded /\ Len(q) >= Capacity

TransportPush(q, v) == Append(q, v)

\* A dequeue that leaves the value at the head of the transport.
TransportPeek(q) == q

TransportPop(q) == Tail(q)

AllSendersGone == \A s \in Senders : spc[s] = "dropped"

----------------------------------------------------------------------------
(* The atomic counter *)

FetchAdd(p) == (p + 1) % Modulus

\* A fetch_sub that stops at 0 in place of wrapping.
FetchSubSaturating(p) == IF p = 0 THEN 0 ELSE p - 1

FetchSub(p) == (p - 1) % Modulus

\* An inc that never goes on to the setter.
IncTouchesNever(prev) == FALSE

\* An inc that goes on to the setter whatever fetch_add returned.
IncTouchesAlways(prev) == TRUE

\* SenderCtl::inc touches readiness when fetch_add returned 0.
IncTouches(prev) == prev = 0

\* A dec that goes from the load straight to the decrement.
DecUnsetsNever(first) == FALSE

\* ReceiverCtl::dec unsets readiness first when the load returned 1.
DecUnsets(first) == first = 1

\* ReceiverCtl::dec's second setter call.
RecheckCond(first, second) == first = 1 /\ second > 0

\* The second setter call of dec with EventSet::readable() for its argument.
RecheckArgReadable == "readable"

\* The argument of the second setter call of dec (EventSet::none()).
RecheckArg == "none"

\* The argument of register's setter call (EventSet::readable()).
SeedArg == "readable"

\* register seeds the readiness when the counter it loaded is positive.
SeedCond(p) == p > 0

\* One set_readiness(arg) call on the published (or, in register, the fresh)
\* SetReadiness: it succeeds and sets the bit, or fails and leaves it.
SetReadinessCall(arg, ok) ==
    /\ setterCalls' = setterCalls + 1
    /\ IF ok
       THEN readiness' = arg /\ UNCHANGED setterFailed
       ELSE setterFailed' = TRUE /\ UNCHANGED readiness


----------------------------------------------------------------------------
(* Sender::send, Sender::try_send and SenderCtl::inc *)

\* The transport accepted value nextId from sender s: the closure of
\* and_then (the call of inc) is what remains of the call.
Accepted(s) ==
    /\ queue' = TransportPush(queue, nextId)
    /\ enqueued' = Append(enqueued, nextId)
    /\ nextId' = nextId + 1
    /\ spc' = [spc EXCEPT ![s] = "inc"]
    /\ sentBy' = sentBy \cup {s}
    /\ earlySend' = (earlySend \/ ~setCell)
    /\ sendAfterRecv' = (sendAfterRecv \/ Len(queue) < Len(enqueued))
    /\ overlapped' = (overlapped \/ InProgress)
    /\ UNCHANGED <<bounded, rxAlive, ctlVars, regVars, rpc, rfirst, rval,
                   lastRet, received>>

\* A refused value that is counted all the same: inc called on the error.
RefusedButCounted(op, s, res) ==
    /\ lastRet' = Ret(op, res, nextId)
    /\ pending' = FetchAdd(pending)
    /\ UNCHANGED <<transportVars, setCell, readiness, setterCalls,
                   setterFailed, regVars, histVars, spc, rpc, rfirst, rval,
                   received>>

\* The transport refused the value: map_err hands it back, inc is not called.
Refused(op, s, res) ==
    /\ lastRet' = Ret(op, res, nextId)
    /\ UNCHANGED <<transportVars, ctlVars, regVars, histVars, spc, rpc,
                   rfirst, rval, received>>

\* Sender::send: tx.send(t) blocks while a bounded transport is full.
Send(s) ==
    /\ spc[s] = "idle"
    /\ nextId <= MaxSends
    /\ IF ~rxAlive
       THEN Refused("send", s, "disconnected")
       ELSE /\ ~TransportFull(queue)
            /\ Accepted(s)

\* Sender::try_send: tx.try_send(t) on Bounded, tx.send(t) on Unbounded.
TrySend(s) ==
    /\ spc[s] = "idle"
    /\ nextId <= MaxSends
    /\ IF ~rxAlive
       THEN Refused("try_send", s, "disconnected")
       ELSE IF TransportFull(queue)
            THEN Refused("try_send", s, "full")
            ELSE Accepted(s)

\* The call of sender s returns res.
SendReturns(s, res) ==
    /\ spc' = [spc EXCEPT ![s] = "idle"]
    /\ lastRet' = Ret("send", res, 0)

\* SenderCtl::inc, line 106: pending.fetch_add(1) and the test of its result.
IncFetchAdd(s) ==
    /\ spc[s] = "inc"
    /\ pending' = FetchAdd(pending)
    /\ IF IncTouches(pending)
       THEN spc' = [spc EXCEPT ![s] = "set"] /\ UNCHANGED lastRet
       ELSE SendReturns(s, "ok")
    /\ UNCHANGED <<transportVars, setCell, readiness, setterCalls,
                   setterFailed, regVars, histVars, rpc, rfirst, rval,
                   received>>

\* An inc that takes its increment back when the setter call fails.
IncSetReadinessRollback(s) ==
    /\ spc[s] = "set"
    /\ IF setCell
       THEN \E ok \in BOOLEAN :
                /\ SetReadinessCall("readable", ok)
                /\ SendReturns(s, IF ok THEN "ok" ELSE "io")
                /\ pending' = IF ok THEN pending ELSE FetchSub(pending)
       ELSE /\ SendReturns(s, "ok")
            /\ UNCHANGED <<pending, readiness, setterCalls, setterFailed>>
    /\ UNCHANGED <<transportVars, setCell, regVars, histVars, rpc,
                   rfirst, rval, received>>

\* SenderCtl::inc, lines 108-110: set_readiness.as_ref() and, when the cell
\* is occupied, set_readiness(readable); its error is the call's result.
IncSetReadiness(s) ==
    /\ spc[s] = "set"
    /\ IF setCell
       THEN \E ok \in BOOLEAN :
                /\ SetReadinessCall("readable", ok)
                /\ SendReturns(s, IF ok THEN "ok" ELSE "io")
       ELSE /\ SendReturns(s, "ok")
            /\ UNCHANGED <<readiness, setterCalls, setterFailed>>
    /\ UNCHANGED <<transportVars, pending, setCell, regVars, histVars, rpc,
                   rfirst, rval, received>>

\* The last handle of sender s is dropped.
DropSender(s) ==
    /\ spc[s] = "idle"
    /\ spc' = [spc EXCEPT ![s] = "dropped"]
    /\ UNCHANGED <<transportVars, ctlVars, regVars, histVars, rpc, rfirst,
                   rval, lastRet, received>>

----------------------------------------------------------------------------
(* Receiver::try_recv and ReceiverCtl::dec *)

\* try_recv returns Ok(rval): the result of dec is dropped (let _ =).
RecvReturns ==
    /\ rpc' = "idle"
    /\ rfirst' = 0
    /\ rval' = 0
    /\ received' = Append(received, rval)
    /\ lastRet' = Ret("try_recv", "ok", rval)

\* Receiver::try_recv, line 230: rx.try_recv().  A value goes on to dec;
\* Empty and Disconnected are returned as they are.
TryRecv ==
    /\ rpc = "idle"
    /\ rxAlive
    /\ IF queue # <<>>
       THEN /\ rval' = Head(queue)
            /\ queue' = TransportPop(queue)
            /\ rpc' = "dec_load"
            /\ overlapped' = (overlapped \/ InProgress)
            /\ UNCHANGED <<lastRet, sentBy, earlySend, sendAfterRecv>>
       ELSE /\ lastRet' = Ret("try_recv",
                              IF AllSendersGone THEN "disconnected"
                                                ELSE "empty", 0)
            /\ UNCHANGED <<queue, rval, rpc, histVars>>
    /\ UNCHANGED <<bounded, rxAlive, nextId, enqueued, ctlVars, regVars, spc,
                   rfirst, received>>

\* ReceiverCtl::dec, lines 119-121: first = pending.load().
DecLoad ==
    /\ rpc = "dec_load"
    /\ rfirst' = pending
    /\ rpc' = IF DecUnsets(pending) THEN "dec_unset" ELSE "dec_sub"
    /\ UNCHANGED <<transportVars, ctlVars, regVars, histVars, spc, rval,
                   lastRet, received>>

\* A try_recv that returns the error of dec's first setter call in place of
\* the value it dequeued.
DecUnsetPropagates ==
    /\ rpc = "dec_unset"
    /\ IF setCell
       THEN \E ok \in BOOLEAN :
                /\ SetReadinessCall("none", ok)
                /\ IF ok
                   THEN /\ rpc' = "dec_sub"
                        /\ UNCHANGED <<rfirst, rval, received, lastRet>>
                   ELSE /\ rpc' = "idle"
                        /\ rfirst' = 0
                        /\ rval' = 0
                        /\ lastRet' = Ret("try_recv", "io", 0)
                        /\ UNCHANGED received
       ELSE /\ rpc' = "dec_sub"
            /\ UNCHANGED <<readiness, setterCalls, setterFailed, rfirst, rval,
                           received, lastRet>>
    /\ UNCHANGED <<transportVars, pending, setCell, regVars, histVars, spc>>

\* ReceiverCtl::dec, lines 123-125: the unset before the decrement.  try!
\* returns from dec on an error, before the fetch_sub.
DecUnset ==
    /\ rpc = "dec_unset"
    /\ IF setCell
       THEN \E ok \in BOOLEAN :
                /\ SetReadinessCall("none", ok)
                /\ IF ok
                   THEN /\ rpc' = "dec_sub"
                        /\ UNCHANGED <<rfirst, rval, received, lastRet>>
                   ELSE RecvReturns
       ELSE /\ rpc' = "dec_sub"
            /\ UNCHANGED <<readiness, setterCalls, setterFailed, rfirst, rval,
                           received, lastRet>>
    /\ UNCHANGED <<transportVars, pending, setCell, regVars, histVars, spc>>

\* ReceiverCtl::dec, lines 129-131: second = pending.fetch_sub(1) and the
\* test of first and second.
DecFetchSub ==
    /\ rpc = "dec_sub"
    /\ pending' = FetchSub(pending)
    /\ IF RecheckCond(rfirst, pending)
       THEN /\ rpc' = "dec_recheck"
            /\ UNCHANGED <<rfirst, rval, received, lastRet>>
       ELSE RecvReturns
    /\ UNCHANGED <<transportVars, setCell, readiness, setterCalls,
                   setterFailed, regVars, histVars, spc>>

\* ReceiverCtl::dec, lines 134-136: the second setter call.
DecRecheck ==
    /\ rpc = "dec_recheck"
    /\ IF setCell
       THEN \E ok \in BOOLEAN : SetReadinessCall(RecheckArg, ok)
       ELSE UNCHANGED <<readiness, setterCalls, setterFailed>>
    /\ RecvReturns
    /\ UNCHANGED <<transportVars, pending, setCell, regVars, histVars, spc>>

\* The Receiver is dropped: the transport disconnects and discards what it
\* still holds.
DropReceiver ==
    /\ rpc = "idle"
    /\ rxAlive
    /\ rxAlive' = FALSE
    /\ queue' = <<>>
    /\ UNCHANGED <<bounded, nextId, enqueued, ctlVars, regVars, histVars, spc,
                   rpc, rfirst, rval, lastRet, received>>

----------------------------------------------------------------------------
(* impl Evented for ReceiverCtl *)

\* A register that does not look at the registration cell.
NeverRegistered == FALSE

\* register, line 145: the check of the registration cell.
AlreadyRegistered == regCell

\* register, lines 145-149: the check, then Registration::new, which makes
\* the Registration known to the poll with no readiness set.
Register ==
    /\ rpc = "idle"
    /\ rxAlive
    /\ IF AlreadyRegistered
       THEN /\ lastRet' = Ret("register", "already registered", 0)
            /\ UNCHANGED <<rpc, pollEntry, readiness, overlapped>>
       ELSE /\ rpc' = "reg_load"
            /\ pollEntry' = "active"
            /\ readiness' = "none"
            /\ overlapped' = (overlapped \/ InProgress)
            /\ UNCHANGED lastRet
    /\ UNCHANGED <<transportVars, pending, setCell, setterCalls, setterFailed,
                   regCell, regSeen, sentBy, earlySend, sendAfterRecv, spc,
                   rfirst, rval, received>>

\* register, line 152: pending.load(Relaxed) > 0.
RegisterLoad ==
    /\ rpc = "reg_load"
    /\ regSeen' = pending
    /\ rpc' = IF SeedCond(pending) THEN "reg_seed"
                                   ELSE "reg_set_registration"
    /\ UNCHANGED <<transportVars, ctlVars, regCell, pollEntry, histVars, spc,
                   rfirst, rval, lastRet, received>>

\* register, line 154: let _ = set_readiness(readable), on the handle that
\* is not published yet; an error is dropped.
RegisterSeed ==
    /\ rpc = "reg_seed"
    /\ \E ok \in BOOLEAN : SetReadinessCall(SeedArg, ok)
    /\ rpc' = "reg_set_registration"
    /\ UNCHANGED <<transportVars, pending, setCell, regVars,
                   histVars, spc, rfirst, rval, lastRet, received>>

\* register, line 157: registration.set(registration).
RegisterSetRegistration ==
    /\ rpc = "reg_set_registration"
    /\ regCell' = TRUE
    /\ rpc' = "reg_set_readiness"
    /\ UNCHANGED <<transportVars, ctlVars, pollEntry, regSeen, histVars, spc,
                   rfirst, rval, lastRet, received>>

\* register, lines 158-160: inner.set_readiness.set(set_readiness); Ok(()).
RegisterSetReadiness ==
    /\ rpc = "reg_set_readiness"
    /\ setCell' = TRUE
    /\ rpc' = "idle"
    /\ lastRet' = Ret("register", "ok", 0)
    /\ UNCHANGED <<transportVars, pending, readiness, setterCalls,
                   setterFailed, regVars, histVars, spc, rfirst, rval,
                   received>>

\* reregister: registration.update(...) of the stored Registration, whose
\* result is returned, or "receiver not registered".
Reregister ==
    /\ rpc = "idle"
    /\ rxAlive
    /\ IF regCell
       THEN \E ok \in BOOLEAN :
                /\ pollEntry' = IF ok THEN "active" ELSE pollEntry
                /\ lastRet' = Ret("reregister",
                                  IF ok THEN "ok" ELSE "io", 0)
       ELSE /\ lastRet' = Ret("reregister", "not registered", 0)
            /\ UNCHANGED pollEntry
    /\ UNCHANGED <<transportVars, ctlVars, regCell, regSeen, histVars, spc,
                   rpc, rfirst, rval, received>>

\* A deregister that empties the registration cell when it succeeds.
DeregisterClearing ==
    /\ rpc = "idle"
    /\ rxAlive
    /\ IF regCell
       THEN \E ok \in BOOLEAN :
                /\ pollEntry' = IF ok THEN "removed" ELSE pollEntry
                /\ regCell' = ~ok
                /\ lastRet' = Ret("deregister",
                                  IF ok THEN "ok" ELSE "io", 0)
       ELSE /\ lastRet' = Ret("deregister", "not registered", 0)
            /\ UNCHANGED <<pollEntry, regCell>>
    /\ UNCHANGED <<transportVars, ctlVars, regSeen, histVars, spc,
                   rpc, rfirst, rval, received>>

\* deregister: registration.deregister(poll) of the stored Registration,
\* whose result is returned, or "receiver not registered".  The cells stay.
Deregister ==
    /\ rpc = "idle"
    /\ rxAlive
    /\ IF regCell
       THEN \E ok \in BOOLEAN :
                /\ pollEntry' = IF ok THEN "removed" ELSE pollEntry
                /\ lastRet' = Ret("deregister",
                                  IF ok THEN "ok" ELSE "io", 0)
       ELSE /\ lastRet' = Ret("deregister", "not registered", 0)
            /\ UNCHANGED pollEntry
    /\ UNCHANGED <<transportVars, ctlVars, regCell, regSeen, histVars, spc,
                   rpc, rfirst, rval, received>>

----------------------------------------------------------------------------

SenderStep(s) ==
    \/ Send(s)
    \/ TrySend(s)
    \/ IncFetchAdd(s)
    \/ IncSetReadiness(s)
    \/ DropSender(s)

ReceiverStep ==
    \/ TryRecv
    \/ DecLoad
    \/ DecUnset
    \/ DecFetchSub
    \/ DecRecheck
    \/ Register
    \/ RegisterLoad
    \/ RegisterSeed
    \/ RegisterSetRegistration
    \/ RegisterSetReadiness
    \/ Reregister
    \/ Deregister
    \/ DropReceiver

Next == (\E s \in Senders : SenderStep(s)) \/ ReceiverStep

Spec == Init /\ [][Next]_vars

----------------------------------------------------------------------------
(* Properties *)

\* A try_recv has taken a value from the transport.
Dequeued == Len(received) > 0 \/ rpc \in {"dec_load", "dec_unset", "dec_sub",
                                          "dec_recheck"}

\* Everything but lastRet.
allButRet == <<bounded, queue, rxAlive, pending, regCell, setCell, pollEntry,
               readiness, spc, rpc, rfirst, rval, nextId, enqueued, received,
               setterCalls, setterFailed, regSeen, sentBy, earlySend,
               sendAfterRecv, overlapped>>

\* C1: no permanent lost wakeup under concurrent send and drain.  With the
\* receiver registered before any send and no setter call failing, whenever
\* every started call has returned and pending > 0, readiness is "readable".
C1_NoLostWakeup ==
    (/\ setCell
     /\ ~earlySend
     /\ ~setterFailed
     /\ rxAlive
     /\ Quiescent
     /\ pending > 0) => readiness = "readable"

\* C2: no lost wakeup across the one-time registration.  When only register
\* and sends have run (no try_recv took a value), register and every send
\* have returned and pending > 0, readiness is "readable"; stated for the
\* runs in which no setter call fails, so that the send racing register's
\* load and publication is what decides it.
C2_NoLostWakeupAcrossRegister ==
    (/\ setCell
     /\ ~Dequeued
     /\ ~setterFailed
     /\ rxAlive
     /\ Quiescent
     /\ pending > 0) => readiness = "readable"

\* The number of times value v occurs in sequence q.
Occurrences(q, v) == Cardinality({i \in DOMAIN q : q[i] = v})

\* C3: the successful dequeues never outnumber the successful enqueues, and
\* every value try_recv returned was enqueued exactly once and is returned
\* at most once.
C3_NoLossNoDuplication ==
    /\ Len(received) <= Len(enqueued)
    /\ \A i \in DOMAIN received :
           /\ Occurrences(enqueued, received[i]) = 1
           /\ Occurrences(received, received[i]) = 1

\* C3's case: two senders' calls overlapped and two values were returned.
C3_Witness ==
    /\ overlapped
    /\ sentBy = Senders
    /\ Len(received) = 2

\* C4: once sending has stopped and the receiver has drained the transport
\* (every sender is gone, the transport is empty, no try_recv is under way),
\* the dequeues equal the enqueues and pending is 0.  No later step changes
\* pending in such a state, so a state violating this is one from which the
\* claimed state is never reached.
C4_DrainedCountsAgree ==
    (/\ AllSendersGone
     /\ rxAlive
     /\ rpc = "idle"
     /\ queue = <<>>) => (Len(received) = Len(enqueued) /\ pending = 0)

\* C5 as claimed: with the receiver registered, whenever every started call
\* has returned and pending = 0, readiness is "none"; and a register that
\* loaded pending = 0 is about to return with readiness "none".
C5_NotReadableWhenEmpty ==
    /\ (setCell /\ rxAlive /\ Quiescent /\ pending = 0) => readiness = "none"
    /\ (rpc \in {"reg_set_registration", "reg_set_readiness"} /\ regSeen = 0)
           => readiness = "none"

\* C5 as amended: the same, for the runs in which no call began while
\* another call was in progress.
C5_NotReadableWhenEmptySequential ==
    /\ (setCell /\ rxAlive /\ Quiescent /\ ~overlapped /\ pending = 0)
           => readiness = "none"
    /\ (rpc \in {"reg_set_registration", "reg_set_readiness"} /\ regSeen = 0)
           => readiness = "none"

\* C5's case: a registered receiver was sent a value, which made it
\* readable, and drained it, one call after the other.
C5_Witness ==
    /\ setCell
    /\ ~earlySend
    /\ ~overlapped
    /\ Quiescent
    /\ Len(received) = 1
    /\ setterCalls >= 2
    /\ pending = 0
    /\ readiness = "none"

\* register returns in this step.
RegisterReturnsOk == rpc = "reg_set_readiness" /\ rpc' = "idle"

\* C6: a register that loaded pending > 0 returns Ok with readiness
\* "readable"; a register that loaded pending = 0 has made no setter call.
C6_SeedingAtRegistration ==
    [][RegisterReturnsOk =>
          /\ regSeen > 0 => readiness' = "readable"
          /\ regSeen = 0 => setterCalls' = 0]_vars

\* A call returned res in this step.
Returned(res) == lastRet' # lastRet /\ lastRet'.res = res

\* A call of op returned in this step.
ReturnedFrom(op) == lastRet' # lastRet /\ lastRet'.op = op

\* C7: register on an occupied registration cell does not go on to make a
\* Registration, and "already registered" is returned by register alone, on
\* an occupied cell, with both cells and the readiness bit (and everything
\* else) as they were; reregister and deregister on an empty cell return
\* "not registered", which is returned by them alone, on an empty cell,
\* with the state as it was.
C7_RegistrationStateErrors ==
    [][/\ (regCell /\ rpc = "idle") => rpc' # "reg_load"
       /\ Returned("already registered") =>
              /\ lastRet'.op = "register"
              /\ regCell
              /\ UNCHANGED allButRet
       /\ Returned("not registered") =>
              /\ lastRet'.op \in {"reregister", "deregister"}
              /\ ~regCell
              /\ UNCHANGED allButRet
       /\ ((ReturnedFrom("reregister") \/ ReturnedFrom("deregister"))
              /\ ~regCell) => lastRet'.res = "not registered"]_vars

\* C7's case: register was refused on a registered receiver.
C7_Witness ==
    /\ regCell
    /\ setCell
    /\ lastRet = Ret("register", "already registered", 0)

\* C8: register returns Ok only from empty cells, which it fills, and the
\* cells, once occupied, stay occupied, so it does so at most once; after a
\* deregister that succeeded both cells are occupied, so that a later
\* register does not go on, and a later reregister or deregister returns
\* what the stored Registration returns.
C8_RegistrableOnce ==
    [][/\ RegisterReturnsOk => (~setCell /\ setCell' /\ regCell')
       /\ (regCell /\ rpc = "idle") => rpc' # "reg_load"
       /\ regCell => regCell'
       /\ setCell => setCell'
       /\ pollEntry' = "removed" => (regCell' /\ setCell')
       /\ ((ReturnedFrom("reregister") \/ ReturnedFrom("deregister"))
              /\ regCell) => lastRet'.res \in {"ok", "io"}
       /\ (ReturnedFrom("reregister") /\ lastRet'.res = "ok")
              => pollEntry' = "active"
       /\ (ReturnedFrom("deregister") /\ lastRet'.res = "ok")
              => pollEntry' = "removed"]_vars

\* C8's case: after a deregister that succeeded, register was refused.
C8_Witness ==
    /\ pollEntry = "removed"
    /\ regCell
    /\ setCell
    /\ lastRet = Ret("register", "already registered", 0)

\* C9: on an unbounded channel with one sender whose three sends v1, v2, v3
\* all returned before the first try_recv, calls not overlapping, whenever
\* no call is in progress the values returned so far are the first of v1,
\* v2, v3 in order and pending is 3 less their number; and a try_recv that
\* returns Empty returns it only after all three.
C9_FifoRoundTrip ==
    (/\ ~bounded
     /\ Cardinality(sentBy) = 1
     /\ enqueued = <<1, 2, 3>>
     /\ ~sendAfterRecv
     /\ ~overlapped
     /\ rxAlive
     /\ Quiescent)
        => /\ received = SubSeq(enqueued, 1, Len(received))
           /\ pending = 3 - Len(received)
           /\ lastRet = Ret("try_recv", "empty", 0) => Len(received) = 3

\* C10: a call that returns Empty, Full or Disconnected leaves pending, the
\* readiness bit, the number of setter calls made and the transport (as all
\* else) as they were; a refused send hands back the value it was given;
\* Full is returned only by try_send on a bounded transport at capacity.
C10_FailedTransportOpsNoEffect ==
    [][(Returned("empty") \/ Returned("full") \/ Returned("disconnected")) =>
          /\ UNCHANGED allButRet
          /\ lastRet'.op \in {"send", "try_send"} => lastRet'.val = nextId
          /\ lastRet'.res = "empty" => (lastRet'.op = "try_recv"
                                           /\ queue = <<>>)
          /\ lastRet'.res = "full" => (/\ lastRet'.op = "try_send"
                                       /\ bounded
                                       /\ Len(queue) >= Capacity)]_vars

\* C10's case: on a bounded channel a first value was accepted and counted,
\* and try_send of the second value returned Full with that value.
C10_Witness ==
    /\ bounded
    /\ queue = <<1>>
    /\ pending = 1
    /\ lastRet = Ret("try_send", "full", 2)

\* The receiver is inside dec: try_recv holds a value it has not returned.
InDec == rpc \in {"dec_load", "dec_unset", "dec_sub", "dec_recheck"}

\* The value try_recv holds, if any.
Held == IF InDec THEN <<rval>> ELSE <<>>

\* Sender s makes the step of inc that ends its call.
IncEnds(s) == spc[s] \in {"inc", "set"} /\ spc'[s] = "idle"

\* The setter call made in this step, if one was made, failed.
SetterCallFails ==
    /\ setterCalls' = setterCalls + 1
    /\ setterFailed'
    /\ readiness' = readiness

\* C11: the fetch_add of inc adds exactly 1 and leaves the transport alone;
\* when the setter call of inc fails, the call returns the Io error and the
\* step changes neither pending (the 1 stays added) nor the transport; and
\* while the receiver lives every accepted value is in the transport, held
\* by the try_recv under way, or already returned, in order.
C11_DeliveredThoughNotNotified ==
    /\ [](rxAlive => enqueued = received \o Held \o queue)
    /\ [][\A s \in Senders :
            /\ (spc[s] = "inc" /\ spc'[s] # "inc") =>
                   /\ pending' = (pending + 1) % Modulus
                   /\ queue' = queue
            /\ (spc[s] = "set" /\ IncEnds(s) /\ SetterCallFails
                   /\ readiness # "readable") =>
                   lastRet' = Ret("send", "io", 0)
            /\ (spc[s] = "set" /\ IncEnds(s) /\ lastRet'.res = "io") =>
                   /\ SetterCallFails
                   /\ pending' = pending
                   /\ queue' = queue
                   /\ enqueued' = enqueued]_vars

\* C11's case: a send to a registered receiver returned Io; its value is in
\* the transport and is counted.
C11_Witness ==
    /\ setCell
    /\ lastRet = Ret("send", "io", 0)
    /\ queue = <<1>>
    /\ pending = 1
    /\ readiness = "none"

\* C12: try_recv holds the value the transport yielded, keeps it through
\* dec, and every step that ends dec, a failed setter call included, returns
\* Ok with that value.
C12_DequeueNeverFailedByCtl ==
    [][/\ (rpc = "idle" /\ rpc' = "dec_load") =>
              (queue # <<>> /\ rval' = Head(queue))
       /\ (InDec /\ InDec') => rval' = rval
       /\ (InDec /\ rpc' = "idle") =>
              /\ lastRet' = Ret("try_recv", "ok", rval)
              /\ received' = Append(received, rval)]_vars

\* C12's case: the first setter call of dec failed (the value was sent to a
\* registered receiver, taken, and is still counted) and try_recv returned
\* the value.
C12_Witness ==
    /\ setCell
    /\ ~earlySend
    /\ setterFailed
    /\ Quiescent
    /\ enqueued = <<1>>
    /\ received = <<1>>
    /\ pending = 1
    /\ lastRet = Ret("try_recv", "ok", 1)

\* C13: when dec takes its recheck branch (first = 1, second > 0) with the
\* setter cell occupied and the call does not fail, the call leaves
\* readiness "readable".
C13_RecheckSetsReadable ==
    [][(rpc = "dec_recheck" /\ rpc' = "idle" /\ setCell /\ ~setterFailed')
          => readiness' = "readable"]_vars

\* C14: dec takes its recheck branch only when pending, at the fetch_sub,
\* is no longer what the load returned, that is when an inc took effect
\* between the two (nothing else changes pending during a dec); stated for
\* the runs in which no call began while another was in progress, where no
\* inc runs during a dec and the branch is then never taken.
C14_RecheckMeansRacingInc ==
    [][(rpc = "dec_sub" /\ rpc' = "dec_recheck" /\ ~overlapped)
          => pending # rfirst]_vars

\* C15: the first step of inc adds exactly 1 to pending, makes no setter
\* call, and goes on to the setter exactly when it observed 0, returning Ok
\* otherwise; the second step leaves pending alone and, when the cell is
\* occupied, makes one call, which sets "readable" or fails, and when the
\* cell is empty makes none and returns Ok; no other step of a sender makes
\* a setter call or changes pending.
C15_IncTouchesOnlyOnZero ==
    [][\A s \in Senders :
          /\ (spc[s] = "inc" /\ spc'[s] # "inc") =>
                 /\ pending' = (pending + 1) % Modulus
                 /\ setterCalls' = setterCalls
                 /\ readiness' = readiness
                 /\ (pending = 0) <=> (spc'[s] = "set")
                 /\ (pending # 0) => (/\ spc'[s] = "idle"
                                      /\ lastRet' = Ret("send", "ok", 0))
          /\ (spc[s] = "set" /\ spc'[s] # "set") =>
                 /\ pending' = pending
                 /\ spc'[s] = "idle"
                 /\ setCell =>
                        /\ setterCalls' = setterCalls + 1
                        /\ \/ readiness' = "readable"
                           \/ SetterCallFails
                 /\ ~setCell =>
                        /\ setterCalls' = setterCalls
                        /\ readiness' = readiness
                        /\ lastRet' = Ret("send", "ok", 0)
          /\ (spc[s] \in {"idle", "dropped"} /\ spc'[s] # spc[s]) =>
                 /\ pending' = pending
                 /\ setterCalls' = setterCalls
                 /\ readiness' = readiness]_vars

\* C15's case: two sends to a registered, empty channel have returned; only
\* the first of them, which observed 0, called the setter.
C15_Witness ==
    /\ setCell
    /\ ~earlySend
    /\ ~setterFailed
    /\ Quiescent
    /\ received = <<>>
    /\ pending = 2
    /\ setterCalls = 1
    /\ readiness = "readable"

\* C16: a dec that loaded 1 goes to the unset before the decrement: with the
\* cell occupied the unset is one setter call, which sets "none" and goes on
\* to the fetch_sub or fails, and pending is decremented only by the step
\* after it; a dec that loaded anything else goes straight to the fetch_sub,
\* returns after it, and makes no setter call.
C16_UnsetBeforeDecrement ==
    [][/\ (rpc = "dec_load" /\ rpc' # rpc) =>
              /\ pending' = pending
              /\ setterCalls' = setterCalls
              /\ rfirst' = pending
              /\ (pending = 1) => rpc' = "dec_unset"
              /\ (pending # 1) => rpc' = "dec_sub"
       /\ (rpc = "dec_unset" /\ rpc' # rpc) =>
              /\ pending' = pending
              /\ setCell =>
                     /\ setterCalls' = setterCalls + 1
                     /\ \/ readiness' = "none" /\ rpc' = "dec_sub"
                        \/ SetterCallFails
       /\ (pending' = (pending - 1) % Modulus) => rpc = "dec_sub"
       /\ (rpc = "dec_sub" /\ rpc' # rpc /\ rfirst # 1) =>
              /\ rpc' = "idle"
              /\ setterCalls' = setterCalls
              /\ readiness' = readiness]_vars

\* C16's case: dec loaded 1 on a registered receiver, has set readiness to
\* "none", and has not decremented pending yet.
C16_Witness ==
    /\ setCell
    /\ rpc = "dec_sub"
    /\ rfirst = 1
    /\ pending = 1
    /\ readiness = "none"
    /\ setterCalls = 2

\* C17: the fetch_sub of dec is never applied to pending = 0, and pending
\* never exceeds the number of values accepted (it has not wrapped).
C17_PendingNeverUnderflows ==
    /\ [](pending <= Len(enqueued))
    /\ [][(rpc = "dec_sub" /\ rpc' # rpc) => pending > 0]_vars

\* C18: a try_recv that obtained a value does not return before the
\* fetch_sub of dec, a failing setter call included, and the fetch_sub
\* takes exactly 1 from pending.
C18_DequeueAlwaysDecrements ==
    [][/\ (rpc \in {"dec_load", "dec_unset"}) => rpc' # "idle"
       /\ (rpc = "dec_sub" /\ rpc' # rpc) =>
              pending' = (pending - 1) % Modulus]_vars

\* C19: with no setter call failed and the receiver alive, whenever no call
\* is in progress pending is the number of values the transport holds.
C19_CounterMirrorsQueue ==
    (~setterFailed /\ rxAlive /\ Quiescent) => pending = Len(queue)

\* C19's case: calls of senders and the receiver overlapped, a value was
\* returned, and one value is left and counted with no call in progress.
C19_Witness ==
    /\ setCell
    /\ ~setterFailed
    /\ rxAlive
    /\ Quiescent
    /\ overlapped
    /\ sentBy = Senders
    /\ Len(received) = 1
    /\ Len(queue) = 1
    /\ pending = 1

\* C20: with register returned before the first send, no call begun while
\* another was in progress and no setter call failed, whenever no call is in
\* progress readiness is "readable" exactly when pending > 0, which is
\* exactly when the transport holds a value.
C20_ExactReadinessSequential ==
    (/\ setCell
     /\ ~earlySend
     /\ ~overlapped
     /\ ~setterFailed
     /\ rxAlive
     /\ Quiescent)
        => /\ (readiness = "readable") <=> (pending > 0)
           /\ (pending > 0) <=> (queue # <<>>)

\* C20's case: after register, two sends and one try_recv, one after the
\* other, one value is left and the receiver is readable.
C20_Witness ==
    /\ setCell
    /\ ~earlySend
    /\ ~overlapped
    /\ ~setterFailed
    /\ rxAlive
    /\ Quiescent
    /\ enqueued = <<1, 2>>
    /\ received = <<1>>
    /\ pending = 1
    /\ readiness = "readable"
=============================================================================
